---- MODULE Spec2Model ----
(***************************************************************************)
(* The three deduplication scripts of the repository                       *)
(*   plc_deduplication.py        ("orig")                                  *)
(*   plc_deduplication_fixed.py  ("fixed")                                 *)
(*   plc_deduplication_debug.py  ("debug")                                 *)
(* run one after another in one working directory, over one input file.    *)
(* The scripts are modelled statement by statement; the stage callables    *)
(* they import (AddId, ExactDuplicates, FuzzyDuplicates, SemDedup) and the *)
(* stage cache are modelled from the design document.                      *)
(***************************************************************************)
EXTENDS Integers, Sequences, FiniteSets, TLC

\* ------------------------------------------------------------------ bounds
\* Records in the input file.
MaxDocs == 2
\* Program starts (runs of main) in one behaviour.
MaxRuns == 2
\* Partitions of a collection handed to a stage.
MaxParts == 2

\* ------------------------------------------------------------------- texts
\* A text is a tuple of characters; a JSON null is the one-element tuple Null.
Null == <<"<null>">>
\* whitespace only: empty once stripped
Blank == <<" ">>
\* (ab)^7: 14 characters.
TextA == <<"a","b","a","b","a","b","a","b","a","b","a","b","a","b">>
\* (ab)^7 a: another string with the same character n-grams as TextA
\* for every n-gram size the scripts configure.
TextB == <<"a","b","a","b","a","b","a","b","a","b","a","b","a","b","a">>
\* A paraphrase of TextA: no n-gram in common, the same meaning.
TextC == <<"x","y","z","x","y","z","x","y","z","x","y","z","x","y","z">>
Texts == {Null, Blank, TextA, TextB, TextC}

IsNull(t) == t = Null

RECURSIVE LStrip(_)
LStrip(t) == IF t # <<>> /\ Head(t) = " " THEN LStrip(Tail(t)) ELSE t

RECURSIVE RStrip(_)
RStrip(t) ==
    IF t # <<>> /\ t[Len(t)] = " " THEN RStrip(SubSeq(t, 1, Len(t) - 1)) ELSE t

\* str.strip()
Strip(t) == RStrip(LStrip(t))

\* ---------------------------------------------------------------- datasets
\* A dataset is the sequence of its rows; a row is [id, text]. A record of
\* the input file may lack the id field, and so may a row before AddId: NoId.
NoId == -1
Ids(ds) == {ds[i].id : i \in DOMAIN ds}
Rows(ds) == {ds[i] : i \in DOMAIN ds}

\* DocumentDataset.read_json: one row per record of the file, one column per
\* field
read_json(file) ==
    [i \in DOMAIN file |-> [id |-> file[i].id, text |-> file[i].text]]

\* df.dropna(subset=['text'])
DropNaText(ds) == SelectSeq(ds, LAMBDA r : ~IsNull(r.text))

\* df[df['text'].str.strip() != '']
DropEmptyText(ds) == SelectSeq(ds, LAMBDA r : Strip(r.text) # <<>>)

\* AddId(id_field="id"): a row that has an id keeps it; the rows without
\* one are numbered in row order, from 0 or from above the ids present
AddId(ds) ==
    LET present == Ids(ds) \ {NoId}
        base == IF present = {} THEN 0
                ELSE 1 + CHOOSE m \in present : \A n \in present : n <= m
        before(i) == Cardinality({j \in 1..(i - 1) : ds[j].id = NoId})
    IN  [i \in DOMAIN ds |->
            [id |-> IF ds[i].id # NoId THEN ds[i].id ELSE base + before(i),
             text |-> ds[i].text]]

\* ------------------------------------------------------------------ stage 1
\* md5 of the text column: equal digests exactly for equal texts; a null
\* text has no digest and joins no group.
SameHash(r, s) == ~IsNull(r.text) /\ r.text = s.text

\* the rows of ds whose id is not in removed
Without(ds, removed) == SelectSeq(ds, LAMBDA r : r.id \notin removed)

\* positional logic: every member of a group but the first one seen
ExactRemovedFirstSeen(ds) ==
    {ds[i].id : i \in {k \in DOMAIN ds :
        \E j \in 1..(k - 1) : SameHash(ds[k], ds[j])}}

\* one duplicate id per group: the highest id of a group of two or more
ExactRemovedLast(ds) ==
    {r.id : r \in {x \in Rows(ds) :
        /\ \E y \in Rows(ds) : SameHash(x, y) /\ y.id < x.id
        /\ ~\E y \in Rows(ds) : SameHash(x, y) /\ y.id > x.id}}

\* the duplicate ids: every member of a group but the one of lowest id
ExactRemoved(ds) ==
    {r.id : r \in {x \in Rows(ds) :
        \E y \in Rows(ds) : SameHash(x, y) /\ y.id < x.id}}

\* ExactDuplicates(...)(ds): with perform_removal the dataset without the
\* duplicates, otherwise the duplicates are reported and nothing is filtered
ExactDuplicates(ds, cfg) ==
    IF cfg.perform_removal THEN Without(ds, ExactRemoved(ds)) ELSE ds

\* ------------------------------------------------------------------ stage 2
\* FuzzyDuplicatesConfig of each script; jaccard_threshold in hundredths.
OrigNgrams == 5
OrigBuckets == 20
OrigHashesPerBucket == 13
OrigJaccardPct == 80
OrigAnchors == 2
FixedNgrams == 12
FixedBuckets == 40
FixedHashesPerBucket == 6
FixedJaccardPct == 92
FixedAnchors == 3
DebugNgrams == 10
DebugBuckets == 30
DebugHashesPerBucket == 8
DebugJaccardPct == 92
DebugAnchors == 2

\* the configuration with false_positive_check=False
FuzzyCfgNoCheck(cache_dir, ngrams, buckets, hashes, pct, anchors) ==
    [cache_dir |-> cache_dir, id_field |-> "id", text_field |-> "text",
     char_ngrams |-> ngrams, num_buckets |-> buckets,
     hashes_per_bucket |-> hashes, jaccard_threshold |-> pct,
     perform_removal |-> TRUE, false_positive_check |-> FALSE,
     num_anchors |-> anchors]

FuzzyCfg(cache_dir, ngrams, buckets, hashes, pct, anchors) ==
    [cache_dir |-> cache_dir, id_field |-> "id", text_field |-> "text",
     char_ngrams |-> ngrams, num_buckets |-> buckets,
     hashes_per_bucket |-> hashes, jaccard_threshold |-> pct,
     perform_removal |-> TRUE, false_positive_check |-> TRUE,
     num_anchors |-> anchors]

orig_fuzzy_cfg ==
    FuzzyCfg("./fuzzy_dedup_cache", OrigNgrams, OrigBuckets,
             OrigHashesPerBucket, OrigJaccardPct, OrigAnchors)
fixed_fuzzy_cfg ==
    FuzzyCfg("./fuzzy_dedup_cache", FixedNgrams, FixedBuckets,
             FixedHashesPerBucket, FixedJaccardPct, FixedAnchors)
debug_fuzzy_cfg ==
    FuzzyCfg("./fuzzy_dedup_cache_debug", DebugNgrams, DebugBuckets,
             DebugHashesPerBucket, DebugJaccardPct, DebugAnchors)

\* the set of character n-grams of a text; empty for a null text and for a
\* text shorter than n
Ngrams(t, n) ==
    IF IsNull(t) THEN {}
    ELSE {SubSeq(t, i, i + n - 1) : i \in 1..(Len(t) - n + 1)}

\* true Jaccard similarity >= pct/100 (inclusive)
JaccardGE(A, B, pct) ==
    /\ A \cup B # {}
    /\ 100 * Cardinality(A \cap B) >= pct * Cardinality(A \cup B)

\* Two rows fall into one LSH bucket: some band of their MinHash signatures
\* is equal, which takes a shared n-gram; rows without n-grams meet nobody.
LSHCandidate(r, s, cfg) ==
    Ngrams(r.text, cfg.char_ngrams) \cap Ngrams(s.text, cfg.char_ngrams) # {}

\* connected component of row r in the candidate-pair graph
RECURSIVE Component(_, _, _)
Component(S, ds, cfg) ==
    LET T == S \cup {y \in Rows(ds) : \E x \in S : LSHCandidate(x, y, cfg)}
    IN  IF T = S THEN S ELSE Component(T, ds, cfg)

DuplicateGroup(r, ds, cfg) == Component({r}, ds, cfg)

\* the num_anchors members of lowest id
Anchors(G, cfg) ==
    {a \in G : Cardinality({b \in G : b.id < a.id}) < cfg.num_anchors}

\* A member is removed when an anchor of lower id is its duplicate: with
\* false_positive_check, when their true Jaccard similarity reaches the
\* threshold; the member of lowest id is retained.
FuzzyRemoved(ds, cfg) ==
    {m.id : m \in {x \in Rows(ds) :
        \E a \in Anchors(DuplicateGroup(x, ds, cfg), cfg) :
            /\ a.id < x.id
            /\ cfg.false_positive_check =>
                 JaccardGE(Ngrams(x.text, cfg.char_ngrams),
                           Ngrams(a.text, cfg.char_ngrams),
                           cfg.jaccard_threshold)}}

\* FuzzyDuplicates(config=cfg, perform_removal=True)(ds)
FuzzyDuplicates(ds, cfg) ==
    IF cfg.perform_removal THEN Without(ds, FuzzyRemoved(ds, cfg)) ELSE ds

\* ------------------------------------------------------------------ stage 3
\* eps_to_extract in hundredths
EpsPct == 8

sem_cfg ==
    [cache_dir |-> "./sem_cache",
     embedding_model_name_or_path |-> "sentence-transformers/all-mpnet-base-v2",
     embedding_batch_size |-> 1024, eps_to_extract |-> EpsPct,
     n_clusters |-> 1000, max_iter |-> 100, input_column |-> "text",
     id_column |-> "id", perform_removal |-> TRUE]

\* The embedding function is a black box text -> vector; here a text is
\* mapped to its meaning, and two vectors have cosine similarity 100 (in
\* hundredths) for one meaning and 0 for two.
Embed(t) ==
    IF t \in {TextA, TextB, TextC} THEN "plc" ELSE "blank"

CosinePct(u, v) == IF u = v THEN 100 ELSE 0

\* within a cluster, a pair joins a group when similarity >= 1 - eps
SemDuplicate(r, s, cfg) ==
    /\ ~IsNull(r.text) /\ ~IsNull(s.text)
    /\ CosinePct(Embed(r.text), Embed(s.text)) >= 100 - cfg.eps_to_extract

SemRemoved(ds, cfg) ==
    {r.id : r \in {x \in Rows(ds) :
        \E y \in Rows(ds) : SemDuplicate(x, y, cfg) /\ y.id < x.id}}

\* SemDedup(config=cfg, ..., perform_removal=True)(ds)
SemDedup(ds, cfg) ==
    IF cfg.perform_removal THEN Without(ds, SemRemoved(ds, cfg)) ELSE ds

\* ExactDuplicates constructed with perform_removal=False
exact_cfg_no_removal ==
    [cache_dir |-> "./exact_dedup_cache", id_field |-> "id",
     text_field |-> "text", hash_method |-> "md5", perform_removal |-> FALSE]

exact_cfg ==
    [cache_dir |-> "./exact_dedup_cache", id_field |-> "id",
     text_field |-> "text", hash_method |-> "md5", perform_removal |-> TRUE]

\* -------------------------------------------------------------- stage cache
\* A stage keeps its output in its cache_dir. A cache is valid for a call
\* when it was committed by the same stage under the same configuration
\* fingerprint for the same stage input; a valid cache is loaded instead of
\* recomputing, any other is discarded and the stage recomputed.
Dirs ==
    {"./exact_dedup_cache", "./fuzzy_dedup_cache", "./sem_cache",
     "./fuzzy_dedup_cache_debug"}

NoCache ==
    [present |-> FALSE, stage |-> "", cfg |-> [cache_dir |-> ""],
     input |-> <<>>, output |-> <<>>]

\* validity that does not look at the configuration fingerprint
CacheValidAnyCfg(e, stage, cfg, in) ==
    e.present /\ e.stage = stage /\ e.input = in

CacheValid(e, stage, cfg, in) ==
    e.present /\ e.stage = stage /\ e.cfg = cfg /\ e.input = in

StageOutput(stage, cfg, in) ==
    CASE stage = "exact" -> ExactDuplicates(in, cfg)
      [] stage = "fuzzy" -> FuzzyDuplicates(in, cfg)
      [] stage = "semantic" -> SemDedup(in, cfg)

\* the stage output is committed whole
Commit(stage, cfg, in, out) ==
    [present |-> TRUE, stage |-> stage, cfg |-> cfg, input |-> in,
     output |-> out]

\* an aborted stage commits nothing
AbortedCache(c, cfg) == c

\* ids in ascending order
RECURSIVE SortedIds(_)
SortedIds(S) ==
    IF S = {} THEN <<>>
    ELSE LET m == CHOOSE x \in S : \A y \in S : x <= y
         IN  <<m>> \o SortedIds(S \ {m})

\* ----------------------------------------------------------------- the state
VARIABLES
    input,            \* the records of the input file: [id, text]
    run,              \* number of program starts so far
    script,           \* the script the current process executes
    pc,               \* its position in main
    client,           \* the Dask client: "none", "open", "closed"
    ds,               \* main's local ds
    ds_after_exact,   \* main's local ds_after_exact
    ds_after_fuzzy,   \* main's local ds_after_fuzzy
    clean_ds,         \* main's local clean_ds
    cache,            \* the cache directories
    files,            \* the output files and directories
    RemovalSet,       \* ids removed by the stages of this run, in order
    log,              \* the stages completed in this run: [stage, loaded]
    exc,              \* the statement that raised the exception in flight
    summary,          \* the document counts main has logged in this run
    sched,            \* a stage at work on a partitioned collection
    last              \* the previous run: its script, last pc, the stages
                      \* it completed, and its local ds_after_exact

vars ==
    <<input, run, script, pc, client, ds, ds_after_exact, ds_after_fuzzy,
      clean_ds, cache, files, RemovalSet, log, exc, summary, sched, last>>

Scripts == {"orig", "fixed", "debug"}

OrigOut == "deduped_1_plc_02/"
FixedOut == "./data/deduped/deduped-01_plc_02.jsonl"
DebugOut == "./data/deduped/debug_fuzzy_dedup.jsonl"
IntermediateExact == "intermediate_exact_dedup/"
IntermediateFuzzy == "intermediate_fuzzy_dedup/"
Paths == {OrigOut, FixedOut, DebugOut, IntermediateExact, IntermediateFuzzy}

\* a local variable of main: unbound, or bound to a dataset
Unbound == [bound |-> FALSE, df |-> <<>>]
Bound(df) == [bound |-> TRUE, df |-> df]

NoFile == [present |-> FALSE, df |-> <<>>]
File(df) == [present |-> TRUE, df |-> df]

Ended == {"idle", "done", "failed", "killed"}

\* no stage at work
SchedIdle ==
    [stage |-> "none", in |-> <<>>, part |-> <<>>, pending |-> {},
     arrived |-> <<>>, out |-> Unbound, removed |-> {}, again |-> "no",
     first |-> [out |-> <<>>, removed |-> {}]]

\* input files whose records have no id field
InputFiles == UNION {[1..n -> [id : {NoId}, text : Texts]] : n \in 0..MaxDocs}

\* the state before the first run, over one of a set of input files
InitOver(inputFiles) ==
    /\ input \in inputFiles
    /\ run = 0
    /\ script = "none"
    /\ pc = "idle"
    /\ client = "none"
    /\ ds = Unbound
    /\ ds_after_exact = Unbound
    /\ ds_after_fuzzy = Unbound
    /\ clean_ds = Unbound
    /\ cache = [d \in Dirs |-> NoCache]
    /\ files = [p \in Paths |-> NoFile]
    /\ RemovalSet = <<>>
    /\ log = <<>>
    /\ exc = "none"
    /\ summary = <<>>
    /\ sched = SchedIdle
    /\ last = [script |-> "none", pc |-> "idle", log |-> <<>>,
               ds_after_exact |-> Unbound]

Init == InitOver(InputFiles)

\* main beginning at get_client in every script
FirstPcGetClient(s) == "get_client"

\* first statement of each main
FirstPc(s) == IF s = "fixed" THEN "clear" ELSE "get_client"

\* python <script>.py : a new process, new locals
StartRun ==
    /\ pc \in Ended
    /\ run < MaxRuns
    /\ \E s \in Scripts : script' = s /\ pc' = FirstPc(s)
    /\ run' = run + 1
    /\ client' = "none"
    /\ ds' = Unbound
    /\ ds_after_exact' = Unbound
    /\ ds_after_fuzzy' = Unbound
    /\ clean_ds' = Unbound
    /\ RemovalSet' = <<>>
    /\ log' = <<>>
    /\ exc' = "none"
    /\ summary' = <<>>
    /\ last' = [script |-> script, pc |-> pc,
                log |-> [i \in DOMAIN log |-> log[i].stage],
                ds_after_exact |-> ds_after_exact]
    /\ UNCHANGED <<input, cache, files, sched>>

\* the process is killed while a stage runs: no handler runs, the stage
\* commits nothing, the directories stay as they are
Interrupt ==
    /\ pc \in {"exact", "fuzzy", "semantic"}
    /\ pc' = "killed"
    /\ UNCHANGED <<input, run, script, client, ds, ds_after_exact,
                   ds_after_fuzzy, clean_ds, cache, files, RemovalSet, log,
                   exc, summary, sched, last>>

Range(f) == {f[i] : i \in DOMAIN f}

\* the stages each main calls, in the order of its calls
Pipeline(s) ==
    CASE s = "orig" -> <<"exact", "fuzzy", "semantic">>
      [] s = "fixed" -> <<"exact", "fuzzy">>
      [] s = "debug" -> <<"fuzzy">>
      [] OTHER -> <<>>

\* the configuration each main gives a stage
StageCfg(s, stage) ==
    CASE stage = "exact" -> exact_cfg
      [] stage = "semantic" -> sem_cfg
      [] stage = "fuzzy" /\ s = "orig" -> orig_fuzzy_cfg
      [] stage = "fuzzy" /\ s = "fixed" -> fixed_fuzzy_cfg
      [] stage = "fuzzy" /\ s = "debug" -> debug_fuzzy_cfg

\* a threshold lies in [0, 1], a cluster count is positive
ValidCfg(cfg) ==
    /\ "jaccard_threshold" \in DOMAIN cfg => cfg.jaccard_threshold \in 0..100
    /\ "eps_to_extract" \in DOMAIN cfg => cfg.eps_to_extract \in 0..100
    /\ "n_clusters" \in DOMAIN cfg => cfg.n_clusters > 0

\* the statement at pc completes and control goes on to the statement at to
Goes(to) == pc' = to /\ exc' = exc

\* the statement at pc raises and control leaves it for to
Raises(to) == pc' = to /\ exc' = pc

\* ------------------------------------------------------- one stage call
\* stage(in): the output, and whether it came from the cache
Call(stage, cfg, in) ==
    LET hit == CacheValid(cache[cfg.cache_dir], stage, cfg, in)
    IN  [out |-> IF hit THEN cache[cfg.cache_dir].output
                 ELSE StageOutput(stage, cfg, in),
         loaded |-> hit]

\* what a completed stage call leaves behind, besides its return value
Completed(stage, cfg, in, res) ==
    /\ cache' = [cache EXCEPT ![cfg.cache_dir] =
                    Commit(stage, cfg, in, res.out)]
    /\ RemovalSet' = RemovalSet \o SortedIds(Ids(in) \ Ids(res.out))
    /\ log' = Append(log, [stage |-> stage, loaded |-> res.loaded])

\* what a stage call that raises leaves behind
Aborted(cfg) ==
    /\ cache' = [cache EXCEPT ![cfg.cache_dir] = AbortedCache(@, cfg)]
    /\ UNCHANGED <<RemovalSet, log>>

\* unchanged by every statement of main
fixedByRun == <<input, run, script, sched, last>>

\* ------------------------------------------------- plc_deduplication.py
\* No try statement: an exception leaves main at once.

\* client = get_client()
OrigGetClient ==
    /\ script = "orig" /\ pc = "get_client"
    /\ \/ client' = "open" /\ Goes("load")
       \/ client' = client /\ Raises("failed")
    /\ UNCHANGED <<fixedByRun, summary,
                   ds, ds_after_exact, ds_after_fuzzy, clean_ds,
                   cache, files, RemovalSet, log>>

\* read_json, AddId, ToBackend (which keeps the rows)
OrigLoaded(file) == AddId(read_json(file))

OrigLoad ==
    /\ script = "orig" /\ pc = "load"
    /\ \/ ds' = Bound(OrigLoaded(input)) /\ Goes("configure")
       \/ ds' = ds /\ Raises("failed")
    /\ UNCHANGED <<fixedByRun, summary, client, ds_after_exact, ds_after_fuzzy,
                   clean_ds, cache, files, RemovalSet, log>>

\* exact = ExactDuplicates(...), fuzzy_cfg and fuzzy, sem_cfg and semantic:
\* a configuration object is validated when it is constructed
OrigConfigure ==
    /\ script = "orig" /\ pc = "configure"
    /\ \/ /\ \A st \in Range(Pipeline("orig")) : ValidCfg(StageCfg("orig", st))
          /\ Goes("exact")
       \/ Raises("failed")
    /\ UNCHANGED <<fixedByRun, summary, client, ds, ds_after_exact,
                   ds_after_fuzzy, clean_ds, cache, files, RemovalSet, log>>

\* Sequential([exact, fuzzy, semantic])(ds): each module is applied to the
\* dataset the one before it returned; ds_after_exact and ds_after_fuzzy
\* stand for the running dataset inside Sequential.
OrigFuzzyInput == ds_after_exact.df
OrigSemanticInput == ds_after_fuzzy.df

OrigExact ==
    /\ script = "orig" /\ pc = "exact"
    /\ \/ LET res == Call("exact", exact_cfg, ds.df)
          IN  /\ Completed("exact", exact_cfg, ds.df, res)
              /\ ds_after_exact' = Bound(res.out)
              /\ Goes("fuzzy")
       \/ /\ Aborted(exact_cfg)
          /\ ds_after_exact' = ds_after_exact
          /\ Raises("failed")
    /\ UNCHANGED <<fixedByRun, summary,
                   client, ds, ds_after_fuzzy, clean_ds, files>>

OrigFuzzy ==
    /\ script = "orig" /\ pc = "fuzzy"
    /\ \/ LET res == Call("fuzzy", orig_fuzzy_cfg, OrigFuzzyInput)
          IN  /\ Completed("fuzzy", orig_fuzzy_cfg, OrigFuzzyInput, res)
              /\ ds_after_fuzzy' = Bound(res.out)
              /\ Goes("semantic")
       \/ /\ Aborted(orig_fuzzy_cfg)
          /\ ds_after_fuzzy' = ds_after_fuzzy
          /\ Raises("failed")
    /\ UNCHANGED <<fixedByRun, summary,
                   client, ds, ds_after_exact, clean_ds, files>>

OrigSemantic ==
    /\ script = "orig" /\ pc = "semantic"
    /\ \/ LET res == Call("semantic", sem_cfg, OrigSemanticInput)
          IN  /\ Completed("semantic", sem_cfg, OrigSemanticInput, res)
              /\ clean_ds' = Bound(res.out)
              /\ Goes("save")
       \/ /\ Aborted(sem_cfg)
          /\ clean_ds' = clean_ds
          /\ Raises("failed")
    /\ UNCHANGED <<fixedByRun, summary,
                   client, ds, ds_after_exact, ds_after_fuzzy,
                   files>>

\* clean_ds.to_json("deduped_1_plc_.../")
OrigSave ==
    /\ script = "orig" /\ pc = "save"
    /\ \/ files' = [files EXCEPT ![OrigOut] = File(clean_ds.df)]
          /\ Goes("close")
       \/ files' = files /\ Raises("failed")
    /\ UNCHANGED <<fixedByRun, summary,
                   client, ds, ds_after_exact, ds_after_fuzzy,
                   clean_ds, cache, RemovalSet, log>>

\* client.close()
OrigClose ==
    /\ script = "orig" /\ pc = "close"
    /\ client' = "closed"
    /\ Goes("done")
    /\ UNCHANGED <<fixedByRun, summary,
                   ds, ds_after_exact, ds_after_fuzzy, clean_ds,
                   cache, files, RemovalSet, log>>

\* -------------------------------------------- plc_deduplication_fixed.py
\* the flag set to False
CLEAR_CACHE_off == FALSE

CLEAR_CACHE == TRUE

\* cache_dirs without "./exact_dedup_cache"
ClearCachesKeepExact(c) ==
    [d \in Dirs |->
        IF d \in {"./fuzzy_dedup_cache", "./sem_cache"}
        THEN NoCache ELSE c[d]]

\* shutil.rmtree of the three cache directories
ClearCaches(c) ==
    [d \in Dirs |->
        IF d \in {"./exact_dedup_cache", "./fuzzy_dedup_cache", "./sem_cache"}
        THEN NoCache ELSE c[d]]

FixedClear ==
    /\ script = "fixed" /\ pc = "clear"
    /\ cache' = IF CLEAR_CACHE THEN ClearCaches(cache) ELSE cache
    /\ Goes("get_client")
    /\ UNCHANGED <<fixedByRun, summary,
                   client, ds, ds_after_exact, ds_after_fuzzy,
                   clean_ds, files, RemovalSet, log>>

\* get_client(...) is outside the try statement
FixedGetClient ==
    /\ script = "fixed" /\ pc = "get_client"
    /\ \/ client' = "open" /\ Goes("load")
       \/ client' = client /\ Raises("failed")
    /\ UNCHANGED <<fixedByRun, summary,
                   ds, ds_after_exact, ds_after_fuzzy, clean_ds,
                   cache, files, RemovalSet, log>>

\* read_json, dropna(subset=['text']), the strip filter, AddId, ToBackend
Preprocessed(file) == AddId(DropEmptyText(DropNaText(read_json(file))))

\* loading followed at once by stage 1, the stages being constructed later
FixedLoadThenExact ==
    /\ script = "fixed" /\ pc = "load"
    /\ ds' = Bound(Preprocessed(input))
    /\ summary' = Append(summary, Len(Preprocessed(input)))
    /\ Goes("exact")
    /\ UNCHANGED <<fixedByRun, client, ds_after_exact, ds_after_fuzzy,
                   clean_ds, cache, files, RemovalSet, log>>

FixedLoad ==
    /\ script = "fixed" /\ pc = "load"
    /\ \/ /\ ds' = Bound(Preprocessed(input))
          /\ summary' = Append(summary, Len(Preprocessed(input)))
          /\ Goes("configure")
       \/ ds' = ds /\ summary' = summary /\ Raises("failed")
    /\ UNCHANGED <<fixedByRun, client, ds_after_exact, ds_after_fuzzy,
                   clean_ds, cache, files, RemovalSet, log>>

\* exact = ExactDuplicates(...), fuzzy_cfg and fuzzy, before the try statement
FixedConfigure ==
    /\ script = "fixed" /\ pc = "configure"
    /\ \/ /\ \A st \in Range(Pipeline("fixed")) :
                ValidCfg(StageCfg("fixed", st))
          /\ Goes("exact")
       \/ Raises("failed")
    /\ UNCHANGED <<fixedByRun, summary, client, ds, ds_after_exact,
                   ds_after_fuzzy, clean_ds, cache, files, RemovalSet, log>>

\* stage 1 followed at once by the final save
FixedExactThenSave ==
    /\ script = "fixed" /\ pc = "exact"
    /\ LET res == Call("exact", exact_cfg, ds.df)
       IN  /\ Completed("exact", exact_cfg, ds.df, res)
           /\ ds_after_exact' = Bound(res.out)
           /\ clean_ds' = Bound(res.out)
           /\ Goes("save")
    /\ UNCHANGED <<fixedByRun, summary, client, ds, ds_after_fuzzy, files>>

\* try: ds_after_exact = exact(ds)
FixedExact ==
    /\ script = "fixed" /\ pc = "exact"
    /\ \/ LET res == Call("exact", exact_cfg, ds.df)
          IN  /\ Completed("exact", exact_cfg, ds.df, res)
              /\ ds_after_exact' = Bound(res.out)
              /\ Goes("integrity")
       \/ /\ Aborted(exact_cfg)
          /\ ds_after_exact' = ds_after_exact
          /\ Raises("except")
    /\ UNCHANGED <<fixedByRun, summary,
                   client, ds, ds_after_fuzzy, clean_ds, files>>

\* the integrity step applied to the loaded dataset instead of the
\* survivors of stage 1
IntegrityOfLoaded(df) ==
    SelectSeq(ds.df, LAMBDA r : ~IsNull(r.text) /\ r.id # NoId)

\* reset_index renumbering the id column of the rows it keeps
IntegrityRenumbered(df) ==
    LET kept == SelectSeq(df, LAMBDA r : ~IsNull(r.text) /\ r.id # NoId)
    IN  [i \in DOMAIN kept |-> [id |-> i - 1, text |-> kept[i].text]]

\* dropna(subset=['text', 'id']); persist, reset_index(drop=True) and
\* repartition keep the rows and their id column
Integrity(df) ==
    SelectSeq(df, LAMBDA r : ~IsNull(r.text) /\ r.id # NoId)

FixedIntegrity ==
    /\ script = "fixed" /\ pc = "integrity"
    /\ \/ /\ ds_after_exact' = Bound(Integrity(ds_after_exact.df))
          /\ summary' = Append(summary, Len(ds_after_exact.df))
          /\ Goes("fuzzy")
       \/ /\ ds_after_exact' = ds_after_exact
          /\ summary' \in {summary, Append(summary, Len(ds_after_exact.df))}
          /\ Raises("except")
    /\ UNCHANGED <<fixedByRun, client, ds, ds_after_fuzzy, clean_ds, cache,
                   files, RemovalSet, log>>

\* fuzzy(ds): the loaded dataset handed to stage 2
FixedFuzzyInputLoaded == ds.df

\* ds_after_fuzzy = fuzzy(ds_after_exact)
FixedFuzzyInput == ds_after_exact.df

FixedFuzzy ==
    /\ script = "fixed" /\ pc = "fuzzy"
    /\ \/ LET res == Call("fuzzy", fixed_fuzzy_cfg, FixedFuzzyInput)
          IN  /\ Completed("fuzzy", fixed_fuzzy_cfg, FixedFuzzyInput, res)
              /\ ds_after_fuzzy' = Bound(res.out)
              /\ Goes("post_fuzzy")
       \/ /\ Aborted(fixed_fuzzy_cfg)
          /\ ds_after_fuzzy' = ds_after_fuzzy
          /\ Raises("except")
    /\ UNCHANGED <<fixedByRun, summary,
                   client, ds, ds_after_exact, clean_ds, files>>

\* len(ds_after_fuzzy.df) is logged; clean_ds = ds_after_fuzzy (the
\* semantic stage is commented out)
FixedPostFuzzy ==
    /\ script = "fixed" /\ pc = "post_fuzzy"
    /\ \/ /\ clean_ds' = ds_after_fuzzy
          /\ summary' = Append(summary, Len(ds_after_fuzzy.df))
          /\ Goes("save")
       \/ clean_ds' = clean_ds /\ summary' = summary /\ Raises("except")
    /\ UNCHANGED <<fixedByRun, client, ds, ds_after_exact, ds_after_fuzzy,
                   cache, files, RemovalSet, log>>

\* both saves of the handler written to intermediate_exact_dedup/
SavedIntermediateOnePath(f, path, local, ok) ==
    IF local.bound /\ ok
    THEN [f EXCEPT !["intermediate_exact_dedup/"] = File(local.df)] ELSE f

\* to_json inside try/except: written, or the failure swallowed
SavedIntermediate(f, path, local, ok) ==
    IF local.bound /\ ok THEN [f EXCEPT ![path] = File(local.df)] ELSE f

\* the handler without its raise: main goes on to the final save
FixedExceptNoRaise ==
    /\ script = "fixed" /\ pc = "except"
    /\ Goes("save")
    /\ UNCHANGED <<fixedByRun, summary,
                   client, ds, ds_after_exact, ds_after_fuzzy,
                   clean_ds, cache, files, RemovalSet, log>>

\* the handler with its saves outside try/except: a save that fails raises
\* out of the handler in place of the exception it was handling
FixedExceptSaveUnguarded ==
    /\ script = "fixed" /\ pc = "except"
    /\ \/ /\ files' = SavedIntermediate(
                          SavedIntermediate(files, IntermediateExact,
                                            ds_after_exact, TRUE),
                          IntermediateFuzzy, ds_after_fuzzy, TRUE)
          /\ Goes("failed")
       \/ files' = files /\ Raises("failed")
    /\ UNCHANGED <<fixedByRun, summary, client, ds, ds_after_exact,
                   ds_after_fuzzy, clean_ds, cache, RemovalSet, log>>

\* except Exception: log, save what is bound, raise
FixedExcept ==
    /\ script = "fixed" /\ pc = "except"
    /\ \E okExact \in BOOLEAN, okFuzzy \in BOOLEAN :
         files' = SavedIntermediate(
                      SavedIntermediate(files, IntermediateExact,
                                        ds_after_exact, okExact),
                      IntermediateFuzzy, ds_after_fuzzy, okFuzzy)
    /\ Goes("failed")
    /\ UNCHANGED <<fixedByRun, summary,
                   client, ds, ds_after_exact, ds_after_fuzzy,
                   clean_ds, cache, RemovalSet, log>>

\* the final save with its failure swallowed
FixedSaveSwallowed ==
    /\ script = "fixed" /\ pc = "save"
    /\ \/ files' = [files EXCEPT ![FixedOut] = File(clean_ds.df)]
       \/ files' = files
    /\ Goes("close")
    /\ UNCHANGED <<fixedByRun, summary, client, ds, ds_after_exact,
                   ds_after_fuzzy, clean_ds, cache, RemovalSet, log>>

\* clean_ds.to_json(...) after the try statement
FixedSave ==
    /\ script = "fixed" /\ pc = "save"
    /\ \/ files' = [files EXCEPT ![FixedOut] = File(clean_ds.df)]
          /\ Goes("close")
       \/ files' = files /\ Raises("failed")
    /\ UNCHANGED <<fixedByRun, summary,
                   client, ds, ds_after_exact, ds_after_fuzzy,
                   clean_ds, cache, RemovalSet, log>>

FixedClose ==
    /\ script = "fixed" /\ pc = "close"
    /\ client' = "closed"
    /\ Goes("done")
    /\ UNCHANGED <<fixedByRun, summary,
                   ds, ds_after_exact, ds_after_fuzzy, clean_ds,
                   cache, files, RemovalSet, log>>

\* -------------------------------------------- plc_deduplication_debug.py
\* All of main is inside try / except (log, raise) / finally (close).
DebugGetClient ==
    /\ script = "debug" /\ pc = "get_client"
    /\ \/ client' = "open" /\ Goes("load")
       \/ client' = client /\ Raises("except")
    /\ UNCHANGED <<fixedByRun, summary,
                   ds, ds_after_exact, ds_after_fuzzy, clean_ds,
                   cache, files, RemovalSet, log>>

DebugLoad ==
    /\ script = "debug" /\ pc = "load"
    /\ \/ /\ ds' = Bound(Preprocessed(input))
          /\ summary' = Append(summary, Len(Preprocessed(input)))
          /\ Goes("configure")
       \/ ds' = ds /\ summary' = summary /\ Raises("except")
    /\ UNCHANGED <<fixedByRun, client, ds_after_exact, ds_after_fuzzy,
                   clean_ds, cache, files, RemovalSet, log>>

\* fuzzy_cfg and fuzzy, inside the try statement
DebugConfigure ==
    /\ script = "debug" /\ pc = "configure"
    /\ \/ /\ \A st \in Range(Pipeline("debug")) :
                ValidCfg(StageCfg("debug", st))
          /\ Goes("fuzzy")
       \/ Raises("except")
    /\ UNCHANGED <<fixedByRun, summary, client, ds, ds_after_exact,
                   ds_after_fuzzy, clean_ds, cache, files, RemovalSet, log>>

\* ds_after_fuzzy = fuzzy(ds)
DebugFuzzyInput == ds.df

DebugFuzzy ==
    /\ script = "debug" /\ pc = "fuzzy"
    /\ \/ LET res == Call("fuzzy", debug_fuzzy_cfg, DebugFuzzyInput)
          IN  /\ Completed("fuzzy", debug_fuzzy_cfg, DebugFuzzyInput, res)
              /\ ds_after_fuzzy' = Bound(res.out)
              /\ summary' = Append(summary, Len(res.out))
              /\ Goes("save")
       \/ /\ Aborted(debug_fuzzy_cfg)
          /\ ds_after_fuzzy' = ds_after_fuzzy
          /\ summary' = summary
          /\ Raises("except")
    /\ UNCHANGED <<fixedByRun, client, ds, ds_after_exact, clean_ds, files>>

DebugSave ==
    /\ script = "debug" /\ pc = "save"
    /\ \/ files' = [files EXCEPT ![DebugOut] = File(ds_after_fuzzy.df)]
          /\ Goes("finally")
       \/ files' = files /\ Raises("except")
    /\ UNCHANGED <<fixedByRun, summary,
                   client, ds, ds_after_exact, ds_after_fuzzy,
                   clean_ds, cache, RemovalSet, log>>

\* except Exception: log the traceback, raise
DebugExcept ==
    /\ script = "debug" /\ pc = "except"
    /\ Goes("finally_raise")
    /\ UNCHANGED <<fixedByRun, summary,
                   client, ds, ds_after_exact, ds_after_fuzzy,
                   clean_ds, cache, files, RemovalSet, log>>

\* finally: if 'client' in locals(): client.close()
DebugFinally ==
    /\ script = "debug" /\ pc \in {"finally", "finally_raise"}
    /\ client' = IF client = "open" THEN "closed" ELSE client
    /\ pc' = IF pc = "finally" THEN "done" ELSE "failed"
    /\ exc' = exc
    /\ UNCHANGED <<fixedByRun, summary,
                   ds, ds_after_exact, ds_after_fuzzy, clean_ds,
                   cache, files, RemovalSet, log>>

\* if __name__ == '__main__': main() -- the status the process ends with:
\* 0 when main returns, 1 when an exception leaves main
exit_status == IF pc = "done" THEN 0 ELSE IF pc = "failed" THEN 1 ELSE -1

\* ------------------------------------------------------------ specification
\* input files in which a record may carry an id of its own; the ids present
\* in one file are distinct
IdTexts == {Null, TextA}
IdInputFiles ==
    {f \in UNION {[1..n -> [id : {NoId, 0, 5}, text : IdTexts]] :
                    n \in 0..MaxDocs} :
        \A i, j \in DOMAIN f : (f[i].id # NoId /\ f[i].id = f[j].id) => i = j}

InitIds == InitOver(IdInputFiles)

\* input files of texts that are prefixes of one string of 36 distinct
\* characters: two of them of lengths m <= n have (m - g + 1) / (n - g + 1)
\* of their g-grams in common, which is exactly 0.80 for lengths 8 and 9
\* under the 5-grams of plc_deduplication.main and exactly 0.92 for lengths
\* 34 and 36 under the 12-grams of plc_deduplication_fixed.main.
Alphabet ==
    <<"a", "b", "c", "d", "e", "f", "g", "h", "i", "j", "k", "l", "m", "n",
      "o", "p", "q", "r", "s", "t", "u", "v", "w", "x", "y", "z", "0", "1",
      "2", "3", "4", "5", "6", "7", "8", "9">>
PrefixTexts == {SubSeq(Alphabet, 1, k) : k \in {8, 9, 33, 34, 36}}
ThresholdInputFiles ==
    UNION {[1..n -> [id : {NoId}, text : PrefixTexts]] : n \in 0..MaxDocs}

InitThreshold == InitOver(ThresholdInputFiles)

Next ==
    \/ StartRun
    \/ Interrupt
    \/ OrigGetClient \/ OrigLoad \/ OrigConfigure \/ OrigExact \/ OrigFuzzy
    \/ OrigSemantic \/ OrigSave \/ OrigClose
    \/ FixedClear \/ FixedGetClient \/ FixedLoad \/ FixedConfigure
    \/ FixedExact
    \/ FixedIntegrity \/ FixedFuzzy \/ FixedPostFuzzy \/ FixedExcept
    \/ FixedSave \/ FixedClose
    \/ DebugGetClient \/ DebugLoad \/ DebugConfigure \/ DebugFuzzy
    \/ DebugSave \/ DebugExcept \/ DebugFinally

Spec == Init /\ [][Next]_vars

\* the scripts over input files whose records may carry ids
SpecIds == InitIds /\ [][Next]_vars

\* the scripts over input files of texts at the similarity thresholds
SpecThreshold == InitThreshold /\ [][Next]_vars

\* ------------------------------------------- a stage over its partitions
\* The collection handed to a stage is split into partitions, the workers
\* take the partitions in any order, and the stage groups what they deliver
\* by its global key. The stages are those of plc_deduplication_fixed.main:
\* exact, the integrity step with its repartition, fuzzy.
progVars ==
    <<input, run, script, pc, client, ds, ds_after_exact, ds_after_fuzzy,
      clean_ds, cache, files, RemovalSet, log, exc, summary, last>>

\* the rows of partition k, in row order
Partition(df, part, k) ==
    LET idx == SortedIds({i \in DOMAIN df : part[i] = k})
    IN  [j \in DOMAIN idx |-> df[idx[j]]]

\* stage is handed df, split into at most MaxParts partitions in any way
Submitted(stage, df, again, first) ==
    \E part \in [DOMAIN df -> 1..MaxParts] :
        sched' = [stage |-> stage, in |-> df, part |-> part,
                  pending |-> Range(part), arrived |-> <<>>, out |-> Unbound,
                  removed |-> sched.removed, again |-> again,
                  first |-> first]

\* ds_after_exact = exact(ds)
SchedStart ==
    /\ sched.stage = "none"
    /\ Submitted("exact", Preprocessed(input), "no", sched.first)
    /\ UNCHANGED progVars

\* a worker takes one of the partitions not yet processed
SchedProcess ==
    /\ \E k \in sched.pending :
          sched' = [sched EXCEPT
                       !.pending = @ \ {k},
                       !.arrived = @ \o Partition(sched.in, sched.part, k)]
    /\ UNCHANGED progVars

\* every partition is in: the stage groups the rows and removes duplicates
SchedFinish ==
    /\ sched.stage \in {"exact", "fuzzy"}
    /\ sched.pending = {} /\ ~sched.out.bound
    /\ LET out == StageOutput(sched.stage, StageCfg("fixed", sched.stage),
                              sched.arrived)
       IN  sched' = [sched EXCEPT
                        !.out = Bound(out),
                        !.removed = @ \cup (Ids(sched.arrived) \ Ids(out))]
    /\ UNCHANGED progVars

\* the integrity step and repartition, then fuzzy(ds_after_exact)
SchedRepartition ==
    /\ sched.stage = "exact" /\ sched.out.bound /\ sched.again = "no"
    /\ Submitted("fuzzy", Integrity(sched.out.df), "no", sched.first)
    /\ UNCHANGED progVars

\* exact(...) once more: on the collection it was handed, or on what it
\* returned
SchedAgain ==
    /\ sched.stage = "exact" /\ sched.out.bound /\ sched.again = "no"
    /\ LET first == [out |-> sched.out.df, removed |-> sched.removed]
       IN  \/ Submitted("exact", sched.in, "input", first)
           \/ Submitted("exact", sched.out.df, "output", first)
    /\ UNCHANGED progVars

SchedNext ==
    \/ SchedStart \/ SchedProcess \/ SchedFinish \/ SchedRepartition
    \/ SchedAgain

\* exact duplicates in number: input files of up to MaxDocs + 1 records
TwiceTexts == {TextA, TextB}
TwiceInputFiles ==
    UNION {[1..n -> [id : {NoId}, text : TwiceTexts]] : n \in 0..(MaxDocs + 1)}

InitTwice == InitOver(TwiceInputFiles)

SpecTwice == InitTwice /\ [][SchedNext]_vars

SpecSched == Init /\ [][SchedNext]_vars

\* ------------------------------------------------------------------ claims
StageNames(l) == [i \in DOMAIN l |-> l[i].stage]

IsPrefix(a, b) == Len(a) <= Len(b) /\ a = SubSeq(b, 1, Len(a))

\* the final output of this run has been written
Finalized == pc \in {"close", "finally", "done"}

\* C1 as stated: the final output is written only after the exact, the fuzzy
\* and the semantic stage have completed, in that order, in every main.
C1_FinalAfterAllThreeStages ==
    Finalized => StageNames(log) = <<"exact", "fuzzy", "semantic">>

\* C1 amended: in every run the completed stages are a prefix of the stages
\* the running script calls (exact, fuzzy, semantic in orig; exact, fuzzy in
\* fixed; fuzzy in debug), and the final output is written only after all of
\* them have completed.
C1_StagesInScriptOrder ==
    /\ IsPrefix(StageNames(log), Pipeline(script))
    /\ Finalized => StageNames(log) = Pipeline(script)

C1_Witness ==
    /\ script = "fixed" /\ pc = "done"
    /\ StageNames(log) = <<"exact", "fuzzy">>
    /\ files[FixedOut].present

\* C2: the rows surviving a stage are among the rows surviving the stage
\* before it, every step of a run (the integrity step of the fixed script
\* included) only shrinks a bound dataset, and RemovalSet only grows.
C2_Chain ==
    /\ ds_after_exact.bound => Rows(ds_after_exact.df) \subseteq Rows(ds.df)
    /\ ds_after_fuzzy.bound =>
         Rows(ds_after_fuzzy.df) \subseteq
            (IF script = "debug" THEN Rows(ds.df)
             ELSE Rows(ds_after_exact.df))
    /\ clean_ds.bound => Rows(clean_ds.df) \subseteq Rows(ds_after_fuzzy.df)

Shrinks(old, new) ==
    old.bound => new.bound /\ Rows(new.df) \subseteq Rows(old.df)

EmptyText(t) == IsNull(t) \/ Strip(t) = <<>>

C4_NoEmptyTextInFirstStage ==
    /\ ds.bound => \A r \in Rows(ds.df) : ~EmptyText(r.text)
    /\ \A r \in Rows(ds.df) :
          r.id \in Range(RemovalSet) => ~EmptyText(r.text)

\* C5: the dataset handed to a stage holds only rows that survived the
\* stage before it, so none of the ids that stage removed, and no id is
\* recorded twice in RemovalSet.
StageInput(stage) == cache[StageCfg(script, stage).cache_dir].input

Completes(stage) == \E i \in DOMAIN log : log[i].stage = stage

C5_RemovedNeverReconsidered ==
    /\ \A i, j \in DOMAIN RemovalSet :
          RemovalSet[i] = RemovalSet[j] => i = j
    /\ (script \in {"orig", "fixed"} /\ Completes("fuzzy")) =>
          /\ Rows(StageInput("fuzzy")) \subseteq Rows(ds_after_exact.df)
          /\ Ids(StageInput("fuzzy"))
                \cap (Ids(ds.df) \ Ids(ds_after_exact.df)) = {}
    /\ (script = "orig" /\ Completes("semantic")) =>
          /\ Rows(StageInput("semantic")) \subseteq Rows(ds_after_fuzzy.df)
          /\ Ids(StageInput("semantic"))
                \cap (Ids(ds.df) \ Ids(ds_after_fuzzy.df)) = {}

C5_Witness ==
    /\ script = "fixed" /\ Completes("fuzzy")
    /\ Ids(ds.df) \ Ids(ds_after_exact.df) # {}
    /\ StageInput("fuzzy") # <<>>

\* the previous run was this script, ended by an exception or a kill after
\* it had committed stage 1
Restarted ==
    /\ last.script = script
    /\ last.pc \in {"failed", "killed"}
    /\ last.log # <<>> /\ last.log[1] = "exact"

Out(s) ==
    CASE s = "orig" -> OrigOut [] s = "fixed" -> FixedOut
      [] s = "debug" -> DebugOut

\* the final output of a run of script s that finds no cache
Uninterrupted(s, file) ==
    CASE s = "orig" ->
           SemDedup(FuzzyDuplicates(
               ExactDuplicates(OrigLoaded(file), exact_cfg),
               orig_fuzzy_cfg), sem_cfg)
      [] s = "fixed" ->
           FuzzyDuplicates(
               Integrity(ExactDuplicates(Preprocessed(file), exact_cfg)),
               fixed_fuzzy_cfg)
      [] s = "debug" -> FuzzyDuplicates(Preprocessed(file), debug_fuzzy_cfg)

FinalOutputIdentical ==
    Finalized =>
        files[Out(script)] = File(Uninterrupted(script, input))

StageCompletes == run' = run /\ Len(log') = Len(log) + 1

CacheComplete ==
    \A d \in Dirs : cache[d].present =>
        /\ cache[d].stage \in {"exact", "fuzzy", "semantic"}
        /\ cache[d].output =
              StageOutput(cache[d].stage, cache[d].cfg, cache[d].input)

\* the previous run of this script ended by an exception or a kill
AfterBrokenRun == last.script = script /\ last.pc \in {"failed", "killed"}

\* every stage the previous run committed is loaded, not recomputed
ResumesFromCommitted ==
    \A i \in DOMAIN log \cap DOMAIN last.log : log[i].loaded

\* a stage call raises: the stage does not complete and main leaves it
StageAborts ==
    /\ pc \in {"exact", "fuzzy", "semantic"}
    /\ log' = log
    /\ pc' \notin {pc, "killed"}

FixedExactSurvivors ==
    Integrity(ExactDuplicates(Preprocessed(input), exact_cfg))

FixedFuzzySurvivors == FuzzyDuplicates(FixedExactSurvivors, fixed_fuzzy_cfg)

SummaryOfRun(s, file) ==
    CASE s = "orig" -> <<>>
      [] s = "fixed" ->
           <<Len(Preprocessed(file)),
             Len(ExactDuplicates(Preprocessed(file), exact_cfg)),
             Len(Uninterrupted("fixed", file))>>
      [] s = "debug" ->
           <<Len(Preprocessed(file)), Len(Uninterrupted("debug", file))>>

Enters(s, rec) == s = "orig" \/ ~EmptyText(rec.text)

IdsUnique(df) == \A i, j \in DOMAIN df : df[i].id = df[j].id => i = j

GroupOf(stage, r, df) ==
    IF stage = "exact" THEN {r} \cup {x \in Rows(df) : SameHash(x, r)}
    ELSE DuplicateGroup(r, df, StageCfg("fixed", stage))

\* what a stage is handed and returns when the rows arrive in row order
InRowOrder(stage) ==
    IF stage = "exact" THEN Preprocessed(input) ELSE FixedExactSurvivors

PrefixSimilar(x, a, cfg) ==
    LET g == cfg.char_ngrams
        m == IF Len(x.text) <= Len(a.text) THEN Len(x.text) ELSE Len(a.text)
        n == IF Len(x.text) <= Len(a.text) THEN Len(a.text) ELSE Len(x.text)
    IN  m >= g /\ 100 * (m - g + 1) >= cfg.jaccard_threshold * (n - g + 1)

\* a is one of the anchors of the group of prefix texts among the rows df
PrefixAnchor(a, df, cfg) ==
    /\ Len(a.text) >= cfg.char_ngrams
    /\ Cardinality({b \in Rows(df) : Len(b.text) >= cfg.char_ngrams
                                        /\ b.id < a.id}) < cfg.num_anchors

PreStage == {"clear", "get_client", "load", "configure"}

Stages == {"exact", "fuzzy", "semantic"}

\* C16: in every run the stage objects of the script are constructed, and
\* their configurations validated, before the first stage is called: the
\* first stage is entered only from that construction and only with valid
\* configurations; until then no stage has run and nothing has been written
\* to a cache or an output; an error raised by the construction ends the run
\* in failure with no stage run and nothing written.
C16_ConfigurationBeforeStages ==
    /\ [](/\ pc \in PreStage => (log = <<>> /\ RemovalSet = <<>>)
          /\ pc \in Stages =>
                \A st \in Range(Pipeline(script)) :
                    ValidCfg(StageCfg(script, st))
          /\ exc = "configure" =>
                (log = <<>> /\ pc \in {"except", "finally_raise", "failed"}))
    /\ [][(pc' \in Stages /\ pc \notin Stages \cup {"integrity"}) =>
              pc = "configure"]_vars
    /\ [][(run' = run /\ (pc \in PreStage \/ exc = "configure")) =>
              /\ files' = files
              /\ \A d \in Dirs : cache'[d] \in {cache[d], NoCache}]_vars

C16_Witness ==
    /\ script = "fixed" /\ pc = "failed" /\ exc = "configure"
    /\ ds.bound /\ client = "open"
    /\ last.script = "orig" /\ Len(last.log) = 3
    /\ ~cache["./exact_dedup_cache"].present
    /\ ~files[IntermediateExact].present

\* C17 as stated: whenever main has ended, by returning or by an exception,
\* after get_client() succeeded, client.close() has been called (and it is
\* never called on a client already closed).
C17_ClientClosedOnEveryPath ==
    (pc \in {"done", "failed"} /\ client # "none") => client = "closed"

\* the handler of plc_deduplication_fixed.main runs
FixedHandles == script = "fixed" /\ pc = "except" /\ pc' # "except"

\* path is left as it was, or holds the rows of local, which a completed
\* stage has bound
SavedOrNot(path, local, stage) ==
    \/ files'[path] = files[path]
    \/ /\ files'[path] = File(local.df)
       /\ local.bound /\ Completes(stage)

\* C18: plc_deduplication_fixed.main writes its final output only when no
\* statement has raised and every stage it calls has completed; once a
\* statement of the try block has raised, the final output is not written
\* in the run; the handler writes at most the survivors of the stages that
\* completed, to intermediate_exact_dedup/ and intermediate_fuzzy_dedup/,
\* goes on when a save fails, and main ends in failure with the exception
\* the handler was entered with.
C18_FinalOutputOnlyOnSuccess ==
    /\ [][(script = "fixed" /\ pc' = "close" /\ pc # "close") =>
              /\ exc = "none" /\ pc = "save"
              /\ StageNames(log) = Pipeline("fixed")
              /\ files'[FixedOut] = File(ds_after_fuzzy.df)]_vars
    /\ [][(script = "fixed" /\ run' = run /\ exc # "none") =>
              /\ files'[FixedOut] = files[FixedOut]
              /\ pc' \in {"except", "failed"}]_vars
    /\ [][FixedHandles =>
              /\ pc' = "failed" /\ exc' = exc
              /\ exc \in {"exact", "integrity", "fuzzy", "post_fuzzy"}
              /\ SavedOrNot(IntermediateExact, ds_after_exact, "exact")
              /\ SavedOrNot(IntermediateFuzzy, ds_after_fuzzy, "fuzzy")
              /\ \A p \in Paths \ {IntermediateExact, IntermediateFuzzy} :
                    files'[p] = files[p]]_vars

C18_Witness ==
    /\ script = "fixed" /\ pc = "failed" /\ exc = "fuzzy"
    /\ StageNames(log) = <<"exact">>
    /\ files[IntermediateExact] = File(ds_after_exact.df)
    /\ ds_after_exact.df # <<>>
    /\ ~files[IntermediateFuzzy].present
    /\ ~files[FixedOut].present

\* the cache directories plc_deduplication_fixed.main clears
cache_dirs == {"./exact_dedup_cache", "./fuzzy_dedup_cache", "./sem_cache"}

\* C19: plc_deduplication_fixed.main removes the three cache directories
\* as its first step, before the client is started and before any stage
\* runs; when stage 1 begins none of the three exists, and every stage of
\* the run computes its output instead of loading it.
C19_CachesClearedFirst ==
    /\ [](script = "fixed" =>
            /\ pc = "clear" => (client = "none" /\ log = <<>> /\ ~ds.bound)
            /\ pc \in {"get_client", "load", "configure", "exact"} =>
                  \A d \in cache_dirs : ~cache[d].present
            /\ \A i \in DOMAIN log : ~log[i].loaded)
    /\ [][(script = "fixed" /\ pc = "clear" /\ pc' # "clear") =>
              /\ pc' = "get_client" /\ client' = "none"
              /\ \A d \in Dirs :
                    cache'[d] = IF d \in cache_dirs THEN NoCache
                                ELSE cache[d]]_vars
    /\ [][(script' = "fixed" /\ run' # run) => pc' = "clear"]_vars

C19_Witness ==
    /\ script = "fixed" /\ pc = "post_fuzzy"
    /\ last.script = "orig" /\ Len(last.log) = 3
    /\ Len(log) = 2 /\ ~log[1].loaded /\ ~log[2].loaded
    /\ ~cache["./sem_cache"].present
    /\ Len(ds.df) = 2

====
